---- MODULE Spec2Model ----
(***************************************************************************)
(* Hospital management application (src/app.py): the four tables, the      *)
(* client session, and the request handlers login, logout, register,       *)
(* manage_departments and book_appointment, with seed_data run by the      *)
(* __main__ block each time the process starts.                            *)
(***************************************************************************)
EXTENDS Integers, Sequences, FiniteSets, TLC

VARIABLES
    departments,   \* table departments, in insertion order (id = position)
    treatments,    \* table treatments
    users,         \* table users
    appointments,  \* table appointments
    session,       \* the client's Flask session (user_id, role)
    running,       \* TRUE once __main__ has reached app.run
    response       \* the last response sent to the client: handler and flash outcome

vars == <<departments, treatments, users, appointments, session, running, response>>

tables == <<departments, treatments, users, appointments>>

----------------------------------------------------------------------------
(* Bounds of the model *)

MaxAppointments == 1

(* A NULL column value; ids start at 1 *)
NULL == 0

----------------------------------------------------------------------------
(* Input universes *)

Usernames == {"admin", "doctor", "alice"}

Emails == {"11d@gmail.com", "a@x.org"}

Passwords == {"admin", "doctor", "pw"}

RegisterPasswords == {"pw", "doctor"}

(* request.form.get('password') is None when the field is absent *)
NoPassword == "<None>"

Salts == {1, 2}

DeptNames == {"Cardiology", "Radiology"}

Descriptions == {"Imaging"}

(* (department_id, treatment_id) pairs of a booking form: departments 1..3 and
   treatments 1..4 are seeded, department 4 exists once an admin has added one,
   treatment 5 never exists *)
BookingTargets == {<<1, 1>>, <<2, 1>>, <<4, 1>>, <<1, 5>>}

(* appointment_datetime form strings, as their fields: Y-M-D sep H:M *)
DatetimeInputs ==
    { <<2025, 3, 1, "T", 10, 0>>,     \* "2025-03-01T10:00"
      <<2025, 2, 30, "T", 10, 0>>,    \* "2025-02-30T10:00"
      <<2025, 3, 1, " ", 10, 0>>,     \* "2025-03-01 10:00"
      <<2025, 3, 1, "T", 24, 0>> }    \* "2025-03-01T24:00"

(* Requests: a GET, a POST lacking a required form field (present = FALSE),
   or a POST carrying every field *)
LoginRequests ==
    {[method |-> "GET", username |-> "", password |-> ""]}
    \cup {[method |-> "POST", username |-> u, password |-> p] :
            u \in Usernames, p \in Passwords \cup {NoPassword}}

RegisterRequests ==
    {[method |-> "GET", present |-> FALSE, username |-> "", email |-> "", password |-> ""],
     [method |-> "POST", present |-> FALSE, username |-> "", email |-> "", password |-> ""]}
    \cup {[method |-> "POST", present |-> TRUE, username |-> u, email |-> e, password |-> p] :
            u \in Usernames, e \in Emails, p \in RegisterPasswords}

DepartmentRequests ==
    {[method |-> "GET", present |-> FALSE, name |-> "", description |-> ""],
     [method |-> "POST", present |-> FALSE, name |-> "", description |-> ""]}
    \cup {[method |-> "POST", present |-> TRUE, name |-> n, description |-> d] :
            n \in DeptNames, d \in Descriptions}

BookingRequests ==
    {[present |-> FALSE, department_id |-> 1, treatment_id |-> 1,
      appointment_datetime |-> <<2025, 3, 1, "T", 10, 0>>]}
    \cup {[present |-> TRUE, department_id |-> 1, treatment_id |-> 1,
           appointment_datetime |-> dt] : dt \in DatetimeInputs}
    \cup {[present |-> TRUE, department_id |-> t[1], treatment_id |-> t[2],
           appointment_datetime |-> <<2025, 3, 1, "T", 10, 0>>] : t \in BookingTargets}

----------------------------------------------------------------------------
(* Passwords: werkzeug's salted hash, stored as method$salt$digest *)

PasswordCode(password) ==
    CASE password = "admin" -> 1
      [] password = "doctor" -> 2
      [] OTHER -> 3

(* the digest of a password under a salt; distinct (salt, password) pairs
   give distinct digests *)
HashInternal(salt, password) == salt * 4 + PasswordCode(password)

generate_password_hash(password, salt) ==
    [method |-> "scrypt", salt |-> salt, digest |-> HashInternal(salt, password)]

(* a check that only looks whether a hash is stored *)
check_password_hash_Truthy(pwhash, password) == pwhash.digest # 0

check_password_hash(pwhash, password) ==
    HashInternal(pwhash.salt, password) = pwhash.digest

set_password(user, password, salt) ==
    [user EXCEPT !.password_hash = generate_password_hash(password, salt)]

check_password(user, password) ==
    check_password_hash(user.password_hash, password)

----------------------------------------------------------------------------
(* Rows and queries *)

NewUser(id, username, email, role, specialization_id) ==
    [id |-> id, username |-> username, email |-> email, role |-> role,
     specialization_id |-> specialization_id,
     password_hash |-> [method |-> "", salt |-> 0, digest |-> 0]]

NewDepartment(id, name, description) ==
    [id |-> id, name |-> name, description |-> description]

NewTreatment(id, treatment_name) ==
    [id |-> id, treatment_name |-> treatment_name]

Rows(table) == {table[i] : i \in DOMAIN table}

UsersByUsername(us, username) == {u \in Rows(us) : u.username = username}

UsersByEmail(us, email) == {u \in Rows(us) : u.email = email}

DepartmentsByName(deps, name) == {d \in Rows(deps) : d.name = name}

(* users without the UNIQUE constraint on email *)
ViolatedUserConstraints_UsernameOnly(us, username, email) ==
    IF UsersByUsername(us, username) # {} THEN {"users.username"} ELSE {}

(* UNIQUE(username), UNIQUE(email) on users *)
ViolatedUserConstraints(us, username, email) ==
    (IF UsersByUsername(us, username) # {} THEN {"users.username"} ELSE {})
    \cup (IF UsersByEmail(us, email) # {} THEN {"users.email"} ELSE {})

(* departments without the UNIQUE constraint on name *)
DepartmentNameTaken_Never(deps, name) == FALSE

(* UNIQUE(name) on departments *)
DepartmentNameTaken(deps, name) == DepartmentsByName(deps, name) # {}

(* SQLite does not enforce FOREIGN KEY constraints unless PRAGMA foreign_keys
   is switched on for the connection, which the application never does *)
ForeignKeysEnforced == FALSE

----------------------------------------------------------------------------
(* Session *)

NoSession == [user_id |-> NULL, role |-> ""]

is_logged_in == session.user_id # NULL

NoResponse == [op |-> "", outcome |-> ""]

Respond(op, outcome) == [op |-> op, outcome |-> outcome]

----------------------------------------------------------------------------
(* seed_data: each block inserts only when its query finds nothing *)

SeedDepartments(deps) ==
    IF deps = <<>>
    THEN <<NewDepartment(1, "Cardiology", "Heart-related issues."),
           NewDepartment(2, "Neurology", "Nervous system disorders."),
           NewDepartment(3, "Orthopaedics", "Musculoskeletal system.")>>
    ELSE deps

(* the treatments block without its emptiness test *)
SeedTreatments_Unguarded(trs) ==
    trs \o <<NewTreatment(Len(trs) + 1, "Consultation"), NewTreatment(Len(trs) + 2, "EKG"),
             NewTreatment(Len(trs) + 3, "MRI Scan"), NewTreatment(Len(trs) + 4, "Knee Surgery")>>

SeedTreatments(trs) ==
    IF trs = <<>>
    THEN <<NewTreatment(1, "Consultation"), NewTreatment(2, "EKG"),
           NewTreatment(3, "MRI Scan"), NewTreatment(4, "Knee Surgery")>>
    ELSE trs

(* the admin block; raised: the commit hit a UNIQUE constraint, which
   seed_data does not catch *)
SeedAdmin(us, salt) ==
    IF UsersByUsername(us, "admin") # {}
    THEN [users |-> us, raised |-> FALSE]
    ELSE IF UsersByEmail(us, "11d@gmail.com") # {}
         THEN [users |-> us, raised |-> TRUE]
         ELSE [users |-> Append(us, set_password(
                            NewUser(Len(us) + 1, "admin", "11d@gmail.com", "admin", NULL),
                            "admin", salt)),
               raised |-> FALSE]

(* the doctor block, with the same uncaught UNIQUE failure *)
SeedDoctor(us, deps, salt) ==
    IF UsersByUsername(us, "doctor") # {}
    THEN [users |-> us, raised |-> FALSE]
    ELSE LET cardiology == DepartmentsByName(deps, "Cardiology")
         IN  IF cardiology = {}
             THEN [users |-> us, raised |-> FALSE]
             ELSE IF UsersByEmail(us, "doc@gmail.com") # {}
             THEN [users |-> us, raised |-> TRUE]
             ELSE [users |-> Append(us, set_password(
                            NewUser(Len(us) + 1, "doctor", "doc@gmail.com", "doctor",
                                    (CHOOSE d \in cardiology : TRUE).id),
                            "doctor", salt)),
                   raised |-> FALSE]

seed_data(db, saltAdmin, saltDoctor) ==
    LET deps   == SeedDepartments(db.departments)
        trs    == SeedTreatments(db.treatments)
        admin  == SeedAdmin(db.users, saltAdmin)
        doctor == IF admin.raised THEN admin
                  ELSE SeedDoctor(admin.users, deps, saltDoctor)
    IN  [departments |-> deps, treatments |-> trs,
         users |-> doctor.users, raised |-> doctor.raised]

Database ==
    [departments |-> departments, treatments |-> treatments, users |-> users,
     raised |-> FALSE]

(* __main__: db.create_all(), seed_data(), app.run() -- every process start;
   app.run is not reached when seed_data raises *)
Main(saltAdmin, saltDoctor) ==
    LET db == seed_data(Database, saltAdmin, saltDoctor)
    IN  /\ departments' = db.departments
        /\ treatments' = db.treatments
        /\ users' = db.users
        /\ running' = ~db.raised
        /\ response' = NoResponse
        /\ UNCHANGED <<appointments, session>>

----------------------------------------------------------------------------
(* /login and /logout *)

LoginOutcome(method, username, password) ==
    IF is_logged_in THEN "already_logged_in"
    ELSE IF method # "POST" THEN "form"
    ELSE IF UsersByUsername(users, username) = {} THEN "invalid_credentials"
    ELSE IF password = NoPassword THEN "fault"
    ELSE IF check_password(CHOOSE u \in UsersByUsername(users, username) : TRUE, password)
         THEN "welcome"
         ELSE "invalid_credentials"

Login(method, username, password) ==
    /\ running
    /\ LET outcome == LoginOutcome(method, username, password)
       IN  /\ response' = Respond("login", outcome)
           /\ session' = IF outcome = "welcome"
                         THEN LET user == CHOOSE u \in UsersByUsername(users, username) : TRUE
                              IN  [user_id |-> user.id, role |-> user.role]
                         ELSE session
    /\ UNCHANGED <<tables, running>>

(* a logout that drops only the logged_in flag *)
Logout_KeepsUser ==
    /\ running
    /\ session' = session
    /\ response' = Respond("logout", "logged_out")
    /\ UNCHANGED <<tables, running>>

Logout ==
    /\ running
    /\ session' = NoSession
    /\ response' = Respond("logout", "logged_out")
    /\ UNCHANGED <<tables, running>>

----------------------------------------------------------------------------
(* /register *)

(* every outcome the request can have: when the new row violates both
   UNIQUE constraints the IntegrityError names one of them *)
RegisterOutcomes(method, present, username, email) ==
    IF method # "POST" THEN {"form"}
    ELSE IF ~present THEN {"error:bad_request"}
    ELSE LET violated == ViolatedUserConstraints(users, username, email)
         IN  IF violated = {} THEN {"registered"}
             ELSE {"error:" \o c : c \in violated}

(* set_password draws the salt of the new hash *)
Register(method, present, username, email, password) ==
    /\ running
    /\ \E outcome \in RegisterOutcomes(method, present, username, email) :
           /\ response' = Respond("register", outcome)
           /\ users' \in
                 IF outcome = "registered"
                 THEN {Append(users, set_password(
                          NewUser(Len(users) + 1, username, email, "patient", NULL),
                          password, salt)) : salt \in Salts}
                 ELSE {users}
    /\ UNCHANGED <<departments, treatments, appointments, session, running>>

----------------------------------------------------------------------------
(* /admin/departments *)

ManageDepartmentsOutcome(method, present, name) ==
    IF ~is_logged_in \/ session.role # "admin" THEN "unauthorized"
    ELSE IF method # "POST" THEN "list"
    ELSE IF ~present THEN "error:bad_request"
    ELSE IF DepartmentNameTaken(departments, name) THEN "error:departments.name"
    ELSE "added"

ManageDepartments(method, present, name, description) ==
    /\ running
    /\ LET outcome == ManageDepartmentsOutcome(method, present, name)
       IN  /\ response' = Respond("manage_departments", outcome)
           /\ departments' = IF outcome = "added"
                             THEN Append(departments,
                                         NewDepartment(Len(departments) + 1, name, description))
                             ELSE departments
    /\ UNCHANGED <<treatments, users, appointments, session, running>>

----------------------------------------------------------------------------
(* /book_appointment *)

DaysInMonth(year, month) ==
    IF month = 2
    THEN (IF year % 4 = 0 /\ (year % 100 # 0 \/ year % 400 = 0) THEN 29 ELSE 28)
    ELSE IF month \in {4, 6, 9, 11} THEN 30 ELSE 31

(* datetime.strptime(s, '%Y-%m-%dT%H:%M'): the datetime, or ValueError *)
strptime(s) ==
    IF /\ s[4] = "T"
       /\ s[1] \in 1..9999
       /\ s[2] \in 1..12
       /\ s[3] \in 1..DaysInMonth(s[1], s[2])
       /\ s[5] \in 0..23
       /\ s[6] \in 0..59
    THEN [ok |-> TRUE,
          value |-> [year |-> s[1], month |-> s[2], day |-> s[3],
                     hour |-> s[5], minute |-> s[6]]]
    ELSE [ok |-> FALSE, value |-> [year |-> 0, month |-> 0, day |-> 0, hour |-> 0, minute |-> 0]]

(* the doctor query without its specialization filter *)
MatchingDoctors_AnyDepartment(us, dept_id) == {u \in Rows(us) : u.role = "doctor"}

(* User.query.filter_by(role='doctor', specialization_id=dept_id) *)
MatchingDoctors(us, dept_id) ==
    {u \in Rows(us) : u.role = "doctor" /\ u.specialization_id = dept_id}

(* .first() of that query, which has no ORDER BY: any matching row, None when
   there is none; then available_doctor.id if available_doctor else None *)
AvailableDoctorIds(us, dept_id) ==
    IF MatchingDoctors(us, dept_id) = {} THEN {NULL}
    ELSE {u.id : u \in MatchingDoctors(us, dept_id)}

(* the FOREIGN KEY constraints of appointments, checked at commit when the
   database enforces them *)
ForeignKeysHold(appt) ==
    /\ \E u \in Rows(users) : u.id = appt.patient_id
    /\ appt.doctor_id = NULL \/ \E u \in Rows(users) : u.id = appt.doctor_id
    /\ \E t \in Rows(treatments) : t.id = appt.treatment_id
    /\ \E d \in Rows(departments) : d.id = appt.department_id

(* the appointment with patient_id and doctor_id exchanged *)
NewAppointment_SwappedIds(dept_id, treatment_id, app_dt, doctor_id) ==
    [id |-> Len(appointments) + 1,
     patient_id |-> doctor_id,
     doctor_id |-> session.user_id,
     treatment_id |-> treatment_id,
     department_id |-> dept_id,
     appointment_datetime |-> app_dt,
     status |-> "Booked"]

NewAppointment(dept_id, treatment_id, app_dt, doctor_id) ==
    [id |-> Len(appointments) + 1,
     patient_id |-> session.user_id,
     doctor_id |-> doctor_id,
     treatment_id |-> treatment_id,
     department_id |-> dept_id,
     appointment_datetime |-> app_dt,
     status |-> "Booked"]

(* a commit whose failure leaves the added row behind *)
CommitAppointment_NoRollback(appts, appt, commitFails) == Append(appts, appt)

(* db.session.add, commit, and on an exception rollback: the row is stored or
   nothing is *)
CommitAppointment(appts, appt, commitFails) ==
    IF commitFails THEN appts ELSE Append(appts, appt)

(* the guard without its role test *)
BookAppointmentGuard_AnyRole == is_logged_in

BookAppointmentGuard == is_logged_in /\ session.role = "patient"

BookAppointmentOutcome(present, dt, appt, dbError) ==
    IF ~BookAppointmentGuard THEN "unauthorized"
    ELSE IF ~present THEN "error:bad_request"
    ELSE IF ~strptime(dt).ok THEN "error:invalid_datetime"
    ELSE IF ForeignKeysEnforced /\ ~ForeignKeysHold(appt) THEN "error:foreign_key"
    ELSE IF dbError THEN "error:persistence"
    ELSE "booked"

BookAppointment(present, dept_id, treatment_id, dt, dbError) ==
    /\ running
    /\ \E doctor_id \in AvailableDoctorIds(users, dept_id) :
         LET appt == NewAppointment(dept_id, treatment_id, strptime(dt).value, doctor_id)
             outcome == BookAppointmentOutcome(present, dt, appt, dbError)
         IN  /\ outcome = "booked" => Len(appointments) < MaxAppointments
             /\ response' = Respond("book_appointment", outcome)
             /\ appointments' =
                   IF outcome \in {"unauthorized", "error:bad_request", "error:invalid_datetime"}
                   THEN appointments
                   ELSE CommitAppointment(appointments, appt, outcome # "booked")
    /\ UNCHANGED <<departments, treatments, users, session, running>>

----------------------------------------------------------------------------
(* The application *)

Init ==
    /\ departments = <<>>
    /\ treatments = <<>>
    /\ users = <<>>
    /\ appointments = <<>>
    /\ session = NoSession
    /\ running = FALSE
    /\ response = NoResponse

Next ==
    \/ \E sa, sd \in Salts : Main(sa, sd)
    \/ \E r \in LoginRequests : Login(r.method, r.username, r.password)
    \/ Logout
    \/ \E r \in RegisterRequests :
          Register(r.method, r.present, r.username, r.email, r.password)
    \/ \E r \in DepartmentRequests :
          ManageDepartments(r.method, r.present, r.name, r.description)
    \/ \E r \in BookingRequests, dbError \in BOOLEAN :
          BookAppointment(r.present, r.department_id, r.treatment_id,
                          r.appointment_datetime, dbError)

Spec == Init /\ [][Next]_vars

----------------------------------------------------------------------------
(* Vocabulary of the properties *)

Last(seq) == seq[Len(seq)]

IsPrefix(s, t) == Len(s) <= Len(t) /\ \A i \in DOMAIN s : t[i] = s[i]

AppendsOne(old, new) == Len(new) = Len(old) + 1 /\ IsPrefix(old, new)

Op(name) == response'.op = name

Outcome(o) == response'.outcome = o

SessionIs(role) == session.user_id # NULL /\ session.role = role

DepartmentExists(id) == \E i \in DOMAIN departments : departments[i].id = id

TreatmentExists(id) == \E i \in DOMAIN treatments : treatments[i].id = id

(* the doctors of a department, read off the users table *)
DoctorsOf(dept_id) ==
    {i \in DOMAIN users : users[i].role = "doctor" /\ users[i].specialization_id = dept_id}

WellFormedDatetime == <<2025, 3, 1, "T", 10, 0>>

----------------------------------------------------------------------------
(* C1: every successful book_appointment adds one appointment with status
   Booked, the session's (patient) user as patient and the department and
   treatment of the request; its doctor is a doctor specialised in the
   requested department when one exists (there is never more than one, so
   "the first" is that doctor) and NULL when none exists. *)
C1_BookingAutoAssign ==
    [][(Op("book_appointment") /\ Outcome("booked")) =>
        /\ SessionIs("patient")
        /\ AppendsOne(appointments, appointments')
        /\ LET a == Last(appointments')
           IN  /\ a.status = "Booked"
               /\ a.patient_id = session.user_id
               /\ \A r \in BookingRequests, e \in BOOLEAN :
                     BookAppointment(r.present, r.department_id, r.treatment_id,
                                     r.appointment_datetime, e)
                     => /\ a.department_id = r.department_id
                        /\ a.treatment_id = r.treatment_id
               /\ Cardinality(DoctorsOf(a.department_id)) <= 1
               /\ IF DoctorsOf(a.department_id) = {}
                  THEN a.doctor_id = NULL
                  ELSE a.doctor_id \in {users[i].id : i \in DoctorsOf(a.department_id)}
      ]_vars

C1_Witness ==
    /\ response = Respond("book_appointment", "booked")
    /\ appointments # <<>>
    /\ Last(appointments).doctor_id # NULL
    /\ Last(appointments).department_id = 1

(* C2: a booking by a patient that names a department or a treatment that
   does not exist is refused and leaves the appointments as they were. *)
C2_MissingReferenceRefused ==
    [][Op("book_appointment") =>
        \A r \in BookingRequests, e \in BOOLEAN :
            ( /\ SessionIs("patient")
              /\ r.present
              /\ ~DepartmentExists(r.department_id) \/ ~TreatmentExists(r.treatment_id)
              /\ BookAppointment(r.present, r.department_id, r.treatment_id,
                                 r.appointment_datetime, e) )
            => /\ ~Outcome("booked")
               /\ appointments' = appointments
      ]_vars

(* C3: a manage_departments request without an admin session and a
   book_appointment request without a patient session are refused before
   anything is changed; hence a department is only ever added by
   manage_departments under an admin session and an appointment only under
   a patient session. *)
C3_RoleEnforcement ==
    [][/\ (Op("manage_departments") /\ ~SessionIs("admin"))
            => Outcome("unauthorized") /\ UNCHANGED <<tables, session>>
       /\ (Op("book_appointment") /\ ~SessionIs("patient"))
            => Outcome("unauthorized") /\ UNCHANGED <<tables, session>>
       /\ (Op("manage_departments") /\ departments' # departments) => SessionIs("admin")
       /\ (appointments' # appointments) => Op("book_appointment") /\ SessionIs("patient")
      ]_vars

C3_Witness ==
    /\ response = Respond("manage_departments", "unauthorized")
    /\ session.role = "patient"
    /\ Len(departments) = 3

(* C4: no two users ever share a username or an email; a register request
   whose username (email) is already taken fails with the uniqueness error,
   naming that constraint when it is the only one violated, and leaves the
   users as they were; a successful register appends exactly one user, with
   role patient and the username and email of the request. *)
UsersUnique ==
    \A i, j \in DOMAIN users :
        i # j => users[i].username # users[j].username /\ users[i].email # users[j].email

UsernameTaken(username) == \E i \in DOMAIN users : users[i].username = username

EmailTaken(email) == \E i \in DOMAIN users : users[i].email = email

C4_RegisterUniqueness ==
    /\ []UsersUnique
    /\ [][Op("register") =>
            /\ ~Outcome("registered") => users' = users
            /\ \A r \in RegisterRequests :
                 ( /\ r.method = "POST" /\ r.present
                   /\ UsernameTaken(r.username) \/ EmailTaken(r.email)
                   /\ Register(r.method, r.present, r.username, r.email, r.password) )
                 => /\ response'.outcome \in {"error:users.username", "error:users.email"}
                    /\ ~EmailTaken(r.email) => Outcome("error:users.username")
                    /\ ~UsernameTaken(r.username) => Outcome("error:users.email")
                    /\ users' = users
            /\ Outcome("registered") =>
                 /\ AppendsOne(users, users')
                 /\ Last(users').role = "patient"
                 /\ \A r \in RegisterRequests :
                      Register(r.method, r.present, r.username, r.email, r.password)
                      => /\ Last(users').username = r.username
                         /\ Last(users').email = r.email
          ]_vars

C4_Witness ==
    /\ response = Respond("register", "error:users.email")
    /\ Len(users) = 3
    /\ users[3].role = "patient"

(* C5: a login request from a client without a session succeeds exactly when
   a user with that username exists and the password verifies against that
   user's stored hash; on success the session carries that user's id and
   role, otherwise no session is created.  The password a patient registered
   with is the only one that verifies against the stored hash, and stored
   users are never changed, so that password keeps authenticating. *)
C5_AuthenticateIff ==
    /\ [][IsPrefix(users, users')]_vars
    /\ [][(Op("login") /\ ~is_logged_in) =>
            \A r \in LoginRequests :
                Login(r.method, r.username, r.password)
                => IF /\ r.method = "POST"
                      /\ r.password \in Passwords
                      /\ \E i \in DOMAIN users :
                            /\ users[i].username = r.username
                            /\ check_password(users[i], r.password)
                   THEN /\ Outcome("welcome")
                        /\ \E i \in DOMAIN users :
                              /\ users[i].username = r.username
                              /\ session' = [user_id |-> users[i].id, role |-> users[i].role]
                   ELSE /\ ~Outcome("welcome")
                        /\ session' = NoSession
          ]_vars
    /\ [][(Op("register") /\ Outcome("registered")) =>
            \A r \in RegisterRequests :
                Register(r.method, r.present, r.username, r.email, r.password)
                => \A q \in Passwords :
                      check_password(Last(users'), q) <=> q = r.password
          ]_vars

C5_Witness ==
    /\ response = Respond("login", "welcome")
    /\ session.user_id = 3
    /\ session.role = "patient"

(* C6: seed_data is idempotent: applied to any reachable database, a second
   run directly after a first changes nothing; from the empty database two
   runs leave exactly the admin, the Cardiology doctor, the three
   departments and the four treatments; and once the application runs each
   seeded item is present exactly once. *)
EmptyDatabase ==
    [departments |-> <<>>, treatments |-> <<>>, users |-> <<>>, raised |-> FALSE]

SeededExactlyOnce(db) ==
    /\ Cardinality({i \in DOMAIN db.users : db.users[i].role = "admin"}) = 1
    /\ Cardinality({i \in DOMAIN db.users : db.users[i].username = "admin"}) = 1
    /\ Cardinality({i \in DOMAIN db.users : db.users[i].role = "doctor"}) = 1
    /\ \A i \in DOMAIN db.users :
          db.users[i].role = "doctor" =>
             \E k \in DOMAIN db.departments :
                /\ db.departments[k].name = "Cardiology"
                /\ db.departments[k].id = db.users[i].specialization_id
    /\ \A n \in {"Cardiology", "Neurology", "Orthopaedics"} :
          Cardinality({k \in DOMAIN db.departments : db.departments[k].name = n}) = 1
    /\ \A n \in {"Consultation", "EKG", "MRI Scan", "Knee Surgery"} :
          Cardinality({k \in DOMAIN db.treatments : db.treatments[k].treatment_name = n}) = 1

C6_SeedIdempotent ==
    /\ \A s1, s2, s3, s4 \in Salts :
          LET once  == seed_data(Database, s1, s2)
              twice == seed_data(once, s3, s4)
          IN  /\ twice.departments = once.departments
              /\ twice.treatments = once.treatments
              /\ twice.users = once.users
    /\ \A s1, s2, s3, s4 \in Salts :
          LET twice == seed_data(seed_data(EmptyDatabase, s1, s2), s3, s4)
          IN  /\ SeededExactlyOnce(twice)
              /\ Len(twice.users) = 2
              /\ Len(twice.departments) = 3
              /\ Len(twice.treatments) = 4
    /\ running => SeededExactlyOnce(Database) /\ Len(treatments) = 4

C6_Witness ==
    /\ running
    /\ response = NoResponse
    /\ Len(users) = 3
    /\ Len(departments) = 4
    /\ appointments # <<>>

(* C7: book_appointment is all-or-nothing: a request that does not end in a
   booking ends in a failure reported to the client (never an unhandled
   fault) and leaves users, departments, treatments, appointments and the
   session exactly as they were; a missing form field, a malformed
   appointment_datetime and a persistence error each end that way. *)
ReportedBookingFailures ==
    {"unauthorized", "error:bad_request", "error:invalid_datetime",
     "error:foreign_key", "error:persistence"}

C7_BookingAllOrNothing ==
    [][Op("book_appointment") =>
        /\ ~Outcome("booked") =>
              /\ response'.outcome \in ReportedBookingFailures
              /\ UNCHANGED <<tables, session>>
        /\ \A r \in BookingRequests, e \in BOOLEAN :
              ( /\ SessionIs("patient")
                /\ ~r.present \/ r.appointment_datetime # WellFormedDatetime \/ e
                /\ BookAppointment(r.present, r.department_id, r.treatment_id,
                                   r.appointment_datetime, e) )
              => /\ ~Outcome("booked")
                 /\ ~r.present => Outcome("error:bad_request")
                 /\ (r.present /\ r.appointment_datetime # WellFormedDatetime)
                       => Outcome("error:invalid_datetime")
                 /\ appointments' = appointments
      ]_vars

C7_Witness ==
    /\ response = Respond("book_appointment", "error:persistence")
    /\ session.role = "patient"
    /\ appointments = <<>>

(* C8: no two departments ever share a name; a manage_departments POST by an
   admin with a name already present fails with the uniqueness error and
   leaves the departments as they were, and one with a fresh name appends
   exactly one department with that name and description. *)
DepartmentsUnique ==
    \A i, j \in DOMAIN departments : i # j => departments[i].name # departments[j].name

C8_DepartmentNameUnique ==
    /\ []DepartmentsUnique
    /\ [][(Op("manage_departments") /\ SessionIs("admin")) =>
            \A r \in DepartmentRequests :
                ( /\ r.method = "POST" /\ r.present
                  /\ ManageDepartments(r.method, r.present, r.name, r.description) )
                => IF \E i \in DOMAIN departments : departments[i].name = r.name
                   THEN /\ Outcome("error:departments.name")
                        /\ departments' = departments
                   ELSE /\ Outcome("added")
                        /\ AppendsOne(departments, departments')
                        /\ Last(departments').name = r.name
                        /\ Last(departments').description = r.description
          ]_vars

C8_Witness ==
    /\ response = Respond("manage_departments", "error:departments.name")
    /\ Len(departments) = 4
    /\ departments[4].name = "Radiology"

(* C9: the session is created only by a successful login and removed only
   by logout: a failed login leaves the client without a session, logout
   always leaves it without one, a login request made while a session
   exists leaves the session as it was, and in every state a session's
   user_id is the id of a stored user whose role is the session's role. *)
SessionValid ==
    is_logged_in =>
        \E i \in DOMAIN users :
            users[i].id = session.user_id /\ users[i].role = session.role

C9_SessionLifecycle ==
    /\ []SessionValid
    /\ [][/\ (session' # session) =>
                \/ Op("login") /\ Outcome("welcome") /\ ~is_logged_in /\ session'.user_id # NULL
                \/ Op("logout")
          /\ Op("logout") => session' = NoSession
          /\ (Op("login") /\ ~Outcome("welcome")) => session' = session
          /\ (Op("login") /\ is_logged_in) => session' = session /\ ~Outcome("welcome")
         ]_vars

C9_Witness ==
    /\ response = Respond("login", "already_logged_in")
    /\ session.role = "admin"

(* C10: in every state each appointment has status Booked, its patient is a
   stored user with role patient, and its doctor is NULL or a stored user
   with role doctor specialised in the appointment's department; stored
   appointments are never changed or removed. *)
AppointmentIntegrity ==
    \A k \in DOMAIN appointments :
        LET a == appointments[k]
        IN  /\ a.status = "Booked"
            /\ \E i \in DOMAIN users :
                  users[i].id = a.patient_id /\ users[i].role = "patient"
            /\ \/ a.doctor_id = NULL
               \/ \E i \in DOMAIN users :
                     /\ users[i].id = a.doctor_id
                     /\ users[i].role = "doctor"
                     /\ users[i].specialization_id = a.department_id

C10_AppointmentIntegrity ==
    /\ []AppointmentIntegrity
    /\ [][IsPrefix(appointments, appointments')]_vars

C10_Witness ==
    /\ appointments # <<>>
    /\ appointments[1].doctor_id = NULL
    /\ response.op = "logout"

====
